---- MODULE Spec2Model ----
(***************************************************************************)
(* LuoguOpenApiClient: tracking of submitted judge requests whose results  *)
(* arrive over a WebSocket push channel and over a polling fallback.       *)
(*                                                                         *)
(* Time.  The code reads the clock only as Date.now() - lastUpdateTime and *)
(* as the delay of setTimeout.  Timestamps are therefore kept in a frame   *)
(* that slides with the clock: Date.now() always reads DateNow, a stored   *)
(* timestamp loses Quantum whenever Quantum milliseconds pass, and a       *)
(* timestamp that is POLL_RESULT_MIN_HANG_TIME or more in the past reads 0.*)
(***************************************************************************)
EXTENDS Integers, Sequences, FiniteSets, TLC

\* ---------------------------------------------------------------- bounds
MaxSubmits  == 2      \* submit() calls in one run (track ids 1..MaxSubmits)
MaxConns    == 3      \* WebSocket objects created in one run
MaxProgress == 1      \* non-terminal results reported per track id
Quantum     == 5000   \* milliseconds that pass in one step of the clock

\* ------------------------------------------------------- program constants
POLL_RESULT_INTERVAL      == 1000
POLL_RESULT_MIN_HANG_TIME == 10000

\* enum JudgeStatus
Waiting             == 0
Judging             == 1
CompileError        == 2
OutputLimitExceeded == 3
MemoryLimitExceeded == 4
TimeLimitExceeded   == 5
WrongAnswer         == 6
RuntimeError        == 7
Invalid             == 11
Accepted            == 12
OverallUnaccepted   == 14

JudgeStatus ==
    { Waiting, Judging, CompileError, OutputLimitExceeded, MemoryLimitExceeded,
      TimeLimitExceeded, WrongAnswer, RuntimeError, Invalid, Accepted,
      OverallUnaccepted }

\* JudgeRecord.judge is optional: NoJudge stands for the missing field.
NoJudge == -1

\* JudgeRecord.compile is optional: "absent", or present with success true/false.
CompileStages == {"absent", "success", "failed"}

\* interface JudgeRecord, reduced to the fields processJudgeResult reads.
JudgeRecord == [compile : CompileStages, judge : JudgeStatus \cup {NoJudge}]

\* The records the remote reports in the runs explored: the non-terminal
\* shapes, a failed compilation and an accepted run.
ReportedRecord ==
    { [compile |-> "absent", judge |-> NoJudge],
      [compile |-> "success", judge |-> NoJudge],
      [compile |-> "success", judge |-> Judging],
      [compile |-> "failed", judge |-> NoJudge],
      [compile |-> "success", judge |-> Accepted] }

\* ------------------------------------------------------------------ state
VARIABLES
    runningJudge,     \* Map trackId -> [requestId, lastUpdateTime]
    ws,               \* this.ws: NoSocket (undefined or null) or a socket id
    pollResultTimer,  \* this.pollResultTimer and the host timer behind it
    stopped,          \* this.stopped
    sockets,          \* sockets created and not yet closed (handlers attached)
    nextSocket,       \* number of sockets created so far
    nextTrack,        \* number of uuid() track ids generated so far
    submitting,       \* track ids whose POST /judge/problem is in flight
    pending,          \* GET /judge/result queries of the running poll tick
    alive,            \* the process has not died of an uncaught exception
    lastOp,           \* the handler that ran in the last step
    raised,           \* the exception that escaped the last handler
    processed,        \* arguments of the last step's processJudgeResult call
    callbacks,        \* onJudgeProgress invocations of the last step
    queries,          \* request ids queried by the last step
    delivered,        \* per track id: results that arrived while it had an entry
    cbCount,          \* per track id: onJudgeProgress invocations so far
    cbFinal,          \* per track id: invocations with a terminal record
    removals,         \* per track id: runningJudge.delete calls that removed it
    finalData         \* per track id: the record it was removed with

vars == << runningJudge, ws, pollResultTimer, stopped, sockets, nextSocket,
           nextTrack, submitting, pending, alive, lastOp, raised, processed,
           callbacks, queries, delivered, cbCount, cbFinal, removals,
           finalData >>

TrackIds == 1 .. MaxSubmits

\* A track id the client never generated.
ForeignTrackId == MaxSubmits + 1

\* this.ws is undefined before the first connection and null after a close or
\* an error; the code only tests it for truthiness and dereferences it.
NoSocket == 0

\* Date.now() in the sliding frame.
DateNow == POLL_RESULT_MIN_HANG_TIME

Max(a, b) == IF a >= b THEN a ELSE b

\* The record finalData holds for an id that has not been removed.
NoRecord == [compile |-> "none", judge |-> NoJudge]

NoTimer == [handle |-> FALSE, scheduled |-> FALSE, left |-> 0]

\* setTimeout(() => this.pollJudgeResult(), this.POLL_RESULT_INTERVAL)
SetTimeout == [handle |-> TRUE, scheduled |-> TRUE, left |-> POLL_RESULT_INTERVAL]

\* constructor: the registry is empty, no socket, the first poll is scheduled.
Init ==
    /\ runningJudge = << >>
    /\ ws = NoSocket
    /\ pollResultTimer = SetTimeout
    /\ stopped = FALSE
    /\ sockets = {}
    /\ nextSocket = 0
    /\ nextTrack = 0
    /\ submitting = {}
    /\ pending = {}
    /\ alive = TRUE
    /\ lastOp = "constructor"
    /\ raised = "none"
    /\ processed = << >>
    /\ callbacks = << >>
    /\ queries = {}
    /\ delivered = [t \in TrackIds |-> 0]
    /\ cbCount = [t \in TrackIds |-> 0]
    /\ cbFinal = [t \in TrackIds |-> 0]
    /\ removals = [t \in TrackIds |-> 0]
    /\ finalData = [t \in TrackIds |-> NoRecord]

\* ------------------------------------------------------ processJudgeResult
\* Finished without the compile stage: a failed compilation is not terminal.
Finished_JudgeOnly(data) ==
    data.judge # NoJudge /\ data.judge \notin {Waiting, Judging}

\* The test of line 132: the compile stage is present and failed, or the judge
\* stage is present with a status other than Waiting and Judging.
Finished(data) ==
    \/ (data.compile # "absent" /\ data.compile # "success")
    \/ (data.judge # NoJudge /\ data.judge \notin {Waiting, Judging})

\* MapDelete clearing the whole map.
MapDelete_All(judges, trackId) == << >>

\* MapDelete deleting nothing.
MapDelete_Nothing(judges, trackId) == judges

\* this.runningJudge.delete(trackId)
MapDelete(judges, trackId) ==
    [t \in (DOMAIN judges) \ {trackId} |-> judges[t]]

\* this.runningJudge.set(trackId, {requestId, lastUpdateTime: Date.now()})
MapSet(judges, trackId, requestId) ==
    [t \in (DOMAIN judges) \cup {trackId} |->
        IF t = trackId
        THEN [requestId |-> requestId, lastUpdateTime |-> DateNow]
        ELSE judges[t]]

\* Touch leaving the timestamp as it was.
Touch_Nothing(judges, trackId) == judges

\* status.lastUpdateTime = Date.now()
Touch(judges, trackId) ==
    [judges EXCEPT ![trackId].lastUpdateTime = DateNow]

\* No callback is invoked and no entry is removed.
NoCallback ==
    /\ callbacks' = << >>
    /\ UNCHANGED << cbCount, cbFinal, removals, finalData >>

\* The steps that do not reach processJudgeResult.
NoResult ==
    /\ processed' = << >>
    /\ delivered' = delivered
    /\ NoCallback

\* A handler is about to hand a result for trackId to processJudgeResult.
Arrives(trackId) ==
    delivered' =
        [t \in TrackIds |->
            IF t = trackId /\ t \in DOMAIN runningJudge
            THEN delivered[t] + 1
            ELSE delivered[t]]

\* processJudgeResult invoking the callback before it looks the entry up.
processJudgeResult_CallbackFirst(trackId, data) ==
    /\ processed' = << << trackId, data >> >>
    /\ callbacks' = << << trackId, data >> >>
    /\ cbCount' = [t \in TrackIds |-> IF t = trackId THEN cbCount[t] + 1 ELSE cbCount[t]]
    /\ cbFinal' = [t \in TrackIds |->
                     IF t = trackId /\ Finished(data) THEN cbFinal[t] + 1 ELSE cbFinal[t]]
    /\ IF trackId \notin DOMAIN runningJudge
       THEN UNCHANGED << runningJudge, removals, finalData >>
       ELSE IF Finished(data)
       THEN /\ runningJudge' = MapDelete(runningJudge, trackId)
            /\ removals' = [removals EXCEPT ![trackId] = @ + 1]
            /\ finalData' = [finalData EXCEPT ![trackId] = data]
       ELSE /\ runningJudge' = Touch(runningJudge, trackId)
            /\ UNCHANGED << removals, finalData >>

\* processJudgeResult deleting a finished entry before, and instead of,
\* invoking the callback.
processJudgeResult_DeleteFirst(trackId, data) ==
    /\ processed' = << << trackId, data >> >>
    /\ IF trackId \notin DOMAIN runningJudge
       THEN /\ runningJudge' = runningJudge
            /\ NoCallback
       ELSE IF Finished(data)
       THEN /\ runningJudge' = MapDelete(runningJudge, trackId)
            /\ callbacks' = << >>
            /\ removals' = [removals EXCEPT ![trackId] = @ + 1]
            /\ finalData' = [finalData EXCEPT ![trackId] = data]
            /\ UNCHANGED << cbCount, cbFinal >>
       ELSE /\ callbacks' = << << trackId, data >> >>
            /\ cbCount' = [cbCount EXCEPT ![trackId] = @ + 1]
            /\ runningJudge' = Touch(runningJudge, trackId)
            /\ UNCHANGED << cbFinal, removals, finalData >>

processJudgeResult(trackId, data) ==
    /\ processed' = << << trackId, data >> >>
    /\ IF trackId \notin DOMAIN runningJudge
       THEN /\ runningJudge' = runningJudge
            /\ NoCallback
       ELSE /\ callbacks' = << << trackId, data >> >>
            /\ cbCount' = [cbCount EXCEPT ![trackId] = @ + 1]
            /\ IF Finished(data)
               THEN /\ runningJudge' = MapDelete(runningJudge, trackId)
                    /\ cbFinal' = [cbFinal EXCEPT ![trackId] = @ + 1]
                    /\ removals' = [removals EXCEPT ![trackId] = @ + 1]
                    /\ finalData' = [finalData EXCEPT ![trackId] = data]
               ELSE /\ runningJudge' = Touch(runningJudge, trackId)
                    /\ UNCHANGED << cbFinal, removals, finalData >>

\* A non-terminal result for a tracked id is reported at most MaxProgress
\* times; every other result may arrive at any time.
Reportable(trackId, data) ==
    (trackId \in DOMAIN runningJudge /\ ~Finished(data))
        => cbCount[trackId] < MaxProgress

\* What the last step reports besides its callbacks.
Report(op, exception, asked) ==
    /\ lastOp' = op
    /\ raised' = exception
    /\ queries' = asked

\* --------------------------------------------------------- ensureWebSocket
\* Connects without the test of this.stopped.
Connects_IgnoresStopped(handle, judges) ==
    /\ handle = NoSocket
    /\ Cardinality(DOMAIN judges) # 0

\* Connects without the test of this.ws.
Connects_IgnoresHandle(handle, judges) ==
    /\ Cardinality(DOMAIN judges) # 0
    /\ ~stopped

\* Whether ensureWebSocket passes its three early returns.
Connects(handle, judges) ==
    /\ handle = NoSocket
    /\ Cardinality(DOMAIN judges) # 0
    /\ ~stopped

\* ensureWebSocket, entered with this.ws = handle, this.runningJudge = judges
\* and the open sockets open.
ensureWebSocket(handle, judges, open) ==
    IF Connects(handle, judges)
    THEN /\ ws' = nextSocket + 1
         /\ sockets' = open \cup {nextSocket + 1}
         /\ nextSocket' = nextSocket + 1
    ELSE /\ ws' = handle
         /\ sockets' = open
         /\ nextSocket' = nextSocket

\* A run creates at most MaxConns sockets.
SocketAvailable(handle, judges) ==
    Connects(handle, judges) => nextSocket < MaxConns

\* OnClose for a handler that clears this.ws and does not reconnect.
OnClose_NoReconnect(s) ==
    /\ alive
    /\ s \in sockets
    /\ ws' = NoSocket
    /\ sockets' = sockets \ {s}
    /\ lastOp' = "onclose"
    /\ raised' = "none"
    /\ queries' = {}
    /\ processed' = << >>
    /\ callbacks' = << >>
    /\ UNCHANGED << delivered, cbCount, cbFinal, removals, finalData >>
    /\ UNCHANGED << runningJudge, pollResultTimer, stopped, nextSocket, nextTrack,
                    submitting, pending, alive >>

\* ws.onclose: this.ws = null; this.ensureWebSocket()
OnClose(s) ==
    /\ alive
    /\ s \in sockets
    /\ SocketAvailable(NoSocket, runningJudge)
    /\ ensureWebSocket(NoSocket, runningJudge, sockets \ {s})
    /\ Report("onclose", "none", {})
    /\ NoResult
    /\ UNCHANGED << runningJudge, pollResultTimer, stopped, nextTrack,
                    submitting, pending, alive >>

\* ws.onerror: this.ws = null; this.ws.close() dereferences the null just
\* stored and throws a TypeError out of the event handler.  The host either
\* dies of the uncaught exception or has an uncaughtException handler.
OnError(s) ==
    /\ alive
    /\ s \in sockets
    /\ ws' = NoSocket
    /\ Report("onerror", "TypeError", {})
    /\ alive' \in BOOLEAN
    /\ NoResult
    /\ UNCHANGED << runningJudge, pollResultTimer, stopped, sockets, nextSocket,
                    nextTrack, submitting, pending >>

\* The text frames a socket delivers: "channel\x00message".
Frames ==
    [channel : {"judge.result"}, json : {"ok"}, type : {"judge"},
     trackId : TrackIds \cup {ForeignTrackId}, data : ReportedRecord]
    \cup
    { [channel |-> "other", json |-> "ok", type |-> "judge",
       trackId |-> ForeignTrackId, data |-> NoRecord],
      [channel |-> "judge.result", json |-> "malformed", type |-> "judge",
       trackId |-> ForeignTrackId, data |-> NoRecord],
      [channel |-> "judge.result", json |-> "ok", type |-> "other",
       trackId |-> ForeignTrackId, data |-> NoRecord] }

\* ws.onmessage
OnMessage(s, frame) ==
    /\ alive
    /\ s \in sockets
    /\ frame.trackId \in (1 .. nextTrack) \cup {ForeignTrackId}
    /\ IF frame.channel # "judge.result"
       THEN /\ NoResult
            /\ Report("onmessage", "none", {})
            /\ UNCHANGED << runningJudge, alive >>
       ELSE IF frame.json # "ok"
       THEN \* JSON.parse throws out of the event handler
            /\ NoResult
            /\ Report("onmessage", "SyntaxError", {})
            /\ alive' \in BOOLEAN
            /\ UNCHANGED runningJudge
       ELSE IF frame.type # "judge"
       THEN /\ NoResult
            /\ Report("onmessage", "none", {})
            /\ UNCHANGED << runningJudge, alive >>
       ELSE /\ Reportable(frame.trackId, frame.data)
            /\ Arrives(frame.trackId)
            /\ processJudgeResult(frame.trackId, frame.data)
            /\ Report("onmessage", "none", {})
            /\ UNCHANGED alive
    /\ UNCHANGED << ws, pollResultTimer, stopped, sockets, nextSocket, nextTrack,
                    submitting, pending >>

\* ------------------------------------------------------------------ submit
\* The remote handle the server returns for the submission that carries
\* trackId: an opaque string, distinct for distinct submissions.
RequestId(trackId) == trackId + MaxSubmits

\* submit, up to the await: trackId = uuid(); POST /judge/problem is sent.
Submit ==
    /\ alive
    /\ nextTrack < MaxSubmits
    /\ nextTrack' = nextTrack + 1
    /\ submitting' = submitting \cup {nextTrack + 1}
    /\ Report("submit", "none", {})
    /\ NoResult
    /\ UNCHANGED << runningJudge, ws, pollResultTimer, stopped, sockets,
                    nextSocket, pending, alive >>

\* submit, after the await returned { requestId }.
SubmitReturns(trackId) ==
    /\ alive
    /\ trackId \in submitting
    /\ submitting' = submitting \ {trackId}
    /\ runningJudge' = MapSet(runningJudge, trackId, RequestId(trackId))
    /\ SocketAvailable(ws, runningJudge')
    /\ ensureWebSocket(ws, runningJudge', sockets)
    /\ Report("submitted", "none", {})
    /\ NoResult
    /\ UNCHANGED << pollResultTimer, stopped, nextTrack, pending, alive >>

\* SubmitThrows for a submit that registers the entry before the await.
SubmitThrows_Registers(trackId) ==
    /\ alive
    /\ trackId \in submitting
    /\ submitting' = submitting \ {trackId}
    /\ runningJudge' =
         [t \in (DOMAIN runningJudge) \cup {trackId} |->
            IF t = trackId
            THEN [requestId |-> 0, lastUpdateTime |-> DateNow]
            ELSE runningJudge[t]]
    /\ lastOp' = "submitFailed"
    /\ raised' = "HttpError"
    /\ queries' = {}
    /\ processed' = << >>
    /\ callbacks' = << >>
    /\ UNCHANGED << delivered, cbCount, cbFinal, removals, finalData >>
    /\ UNCHANGED << ws, pollResultTimer, stopped, sockets, nextSocket,
                    nextTrack, pending, alive >>

\* submit, when call() throws (fetch failed, or the status is not ok): the
\* promise submit returned rejects and nothing after the await runs.
SubmitThrows(trackId) ==
    /\ alive
    /\ trackId \in submitting
    /\ submitting' = submitting \ {trackId}
    /\ Report("submitFailed", "HttpError", {})
    /\ NoResult
    /\ UNCHANGED << runningJudge, ws, pollResultTimer, stopped, sockets,
                    nextSocket, nextTrack, pending, alive >>

\* -------------------------------------------------------------------- stop
\* clearTimeout(this.pollResultTimer): the handle stays, the timer is gone.
ClearTimeout(timer) == [timer EXCEPT !.scheduled = FALSE]

\* stop(): this.ws.close() throws a TypeError to the caller when this.ws is
\* undefined or null, before the timer is looked at.
Stop ==
    /\ alive
    /\ stopped' = TRUE
    /\ IF ws = NoSocket
       THEN /\ Report("stop", "TypeError", {})
            /\ pollResultTimer' = pollResultTimer
       ELSE /\ Report("stop", "none", {})
            /\ pollResultTimer' = IF pollResultTimer.handle
                                  THEN ClearTimeout(pollResultTimer)
                                  ELSE pollResultTimer
    /\ NoResult
    /\ UNCHANGED << runningJudge, ws, sockets, nextSocket, nextTrack,
                    submitting, pending, alive >>

\* --------------------------------------------------------- pollJudgeResult
\* Hanging with the comparison inverted: the fresh entries.
Hanging_Fresh(judges) ==
    { t \in DOMAIN judges :
        DateNow - judges[t].lastUpdateTime < POLL_RESULT_MIN_HANG_TIME }

\* Hanging without the skip of line 111: every entry.
Hanging_All(judges) == DOMAIN judges

\* Line 111: the entries the tick does not skip.
Hanging(judges) ==
    { t \in DOMAIN judges :
        ~(DateNow - judges[t].lastUpdateTime < POLL_RESULT_MIN_HANG_TIME) }

\* Lines 123-125, run when every query of the tick has settled.
Rearm == IF ~stopped THEN SetTimeout ELSE NoTimer

\* PollTick re-arming the timer before its queries have settled.
PollTick_RearmsAtOnce ==
    /\ alive
    /\ pollResultTimer.scheduled
    /\ pollResultTimer.left = 0
    /\ LET asked == { [trackId |-> t, requestId |-> runningJudge[t].requestId] :
                        t \in Hanging(runningJudge) }
       IN /\ pending' = asked
          /\ Report("poll", "none", { q.requestId : q \in asked })
          /\ pollResultTimer' = Rearm
    /\ NoResult
    /\ UNCHANGED << runningJudge, ws, stopped, sockets, nextSocket, nextTrack,
                    submitting, alive >>

\* The timer fires: pollJudgeResult runs up to the await of Promise.all.
\* Every query of the tick is sent here; a tick without queries goes on to
\* line 123 in the same turn.
PollTick ==
    /\ alive
    /\ pollResultTimer.scheduled
    /\ pollResultTimer.left = 0
    /\ LET asked == { [trackId |-> t, requestId |-> runningJudge[t].requestId] :
                        t \in Hanging(runningJudge) }
       IN /\ pending' = asked
          /\ Report("poll", "none", { q.requestId : q \in asked })
          /\ pollResultTimer' = IF asked = {} THEN Rearm ELSE NoTimer
    /\ NoResult
    /\ UNCHANGED << runningJudge, ws, stopped, sockets, nextSocket, nextTrack,
                    submitting, alive >>

\* What GET /judge/result answers: an error (caught at line 118 and logged;
\* the step reports "pollFailed"), 204 (null),
\* or the record of the request, which echoes the track id it was submitted
\* with.
Answers ==
    { [kind |-> "error", data |-> NoRecord], [kind |-> "null", data |-> NoRecord] }
        \cup [kind : {"judge"}, data : ReportedRecord]

\* PollResponse without the catch of line 118: a failing query rejects
\* Promise.all, so the other queries of the tick are dropped and line 123 is
\* not reached.
PollResponse_ErrorAborts(q, answer) ==
    /\ alive
    /\ q \in pending
    /\ pending' = IF answer.kind = "error" THEN {} ELSE pending \ {q}
    /\ IF answer.kind = "judge"
       THEN /\ Reportable(q.trackId, answer.data)
            /\ Arrives(q.trackId)
            /\ processJudgeResult(q.trackId, answer.data)
       ELSE /\ NoResult
            /\ UNCHANGED runningJudge
    /\ Report(IF answer.kind = "error" THEN "pollFailed" ELSE "polled", "none", {})
    /\ pollResultTimer' = IF answer.kind = "error" THEN NoTimer
                          ELSE IF pending' = {} THEN Rearm ELSE pollResultTimer
    /\ UNCHANGED << ws, stopped, sockets, nextSocket, nextTrack, submitting,
                    alive >>

\* PollResponse taking the 204 answer for a sign of life: the entry's
\* lastUpdateTime is refreshed.
PollResponse_NullIsProgress(q, answer) ==
    /\ alive
    /\ q \in pending
    /\ pending' = pending \ {q}
    /\ IF answer.kind = "judge"
       THEN /\ Reportable(q.trackId, answer.data)
            /\ Arrives(q.trackId)
            /\ processJudgeResult(q.trackId, answer.data)
       ELSE IF answer.kind = "null" /\ q.trackId \in DOMAIN runningJudge
       THEN /\ NoResult
            /\ runningJudge' = Touch(runningJudge, q.trackId)
       ELSE /\ NoResult
            /\ UNCHANGED runningJudge
    /\ Report(IF answer.kind = "error" THEN "pollFailed" ELSE "polled", "none", {})
    /\ pollResultTimer' = IF pending' = {} THEN Rearm ELSE pollResultTimer
    /\ UNCHANGED << ws, stopped, sockets, nextSocket, nextTrack, submitting,
                    alive >>

\* One query of the tick settles; the last one to settle lets Promise.all
\* resolve and the tick reach line 123.
PollResponse(q, answer) ==
    /\ alive
    /\ q \in pending
    /\ pending' = pending \ {q}
    /\ IF answer.kind = "judge"
       THEN /\ Reportable(q.trackId, answer.data)
            /\ Arrives(q.trackId)
            /\ processJudgeResult(q.trackId, answer.data)
       ELSE /\ NoResult
            /\ UNCHANGED runningJudge
    /\ Report(IF answer.kind = "error" THEN "pollFailed" ELSE "polled", "none", {})
    /\ pollResultTimer' = IF pending' = {} THEN Rearm ELSE pollResultTimer
    /\ UNCHANGED << ws, stopped, sockets, nextSocket, nextTrack, submitting,
                    alive >>

\* ------------------------------------------------------------------- clock
\* Quantum milliseconds pass.
Elapse(timestamp) == Max(0, timestamp - Quantum)

AdvanceTime ==
    /\ alive
    /\ runningJudge' =
         [t \in DOMAIN runningJudge |->
            [runningJudge[t] EXCEPT !.lastUpdateTime = Elapse(@)]]
    /\ pollResultTimer' = [pollResultTimer EXCEPT !.left = Elapse(@)]
    /\ Report("clock", "none", {})
    /\ NoResult
    /\ UNCHANGED << ws, stopped, sockets, nextSocket, nextTrack, submitting,
                    pending, alive >>

Next ==
    \/ Submit
    \/ \E t \in TrackIds : SubmitReturns(t)
    \/ \E t \in TrackIds : SubmitThrows(t)
    \/ \E s \in 1 .. MaxConns : OnClose(s)
    \/ \E s \in 1 .. MaxConns : OnError(s)
    \/ \E s \in 1 .. MaxConns, frame \in Frames : OnMessage(s, frame)
    \/ Stop
    \/ PollTick
    \/ \E q \in pending, answer \in Answers : PollResponse(q, answer)
    \/ AdvanceTime

Spec == Init /\ [][Next]_vars

\* ------------------------------------------- every shape of judge record
\* The result processor applied to every shape of judge record: both
\* submissions have returned and the socket is open (a state of Spec), and
\* frames carrying any JudgeRecord arrive for the tracked ids.
ClassifyInit ==
    /\ runningJudge = [t \in TrackIds |->
                          [requestId |-> RequestId(t), lastUpdateTime |-> DateNow]]
    /\ ws = 1
    /\ pollResultTimer = SetTimeout
    /\ stopped = FALSE
    /\ sockets = {1}
    /\ nextSocket = 1
    /\ nextTrack = MaxSubmits
    /\ submitting = {}
    /\ pending = {}
    /\ alive = TRUE
    /\ lastOp = "submitted"
    /\ raised = "none"
    /\ processed = << >>
    /\ callbacks = << >>
    /\ queries = {}
    /\ delivered = [t \in TrackIds |-> 0]
    /\ cbCount = [t \in TrackIds |-> 0]
    /\ cbFinal = [t \in TrackIds |-> 0]
    /\ removals = [t \in TrackIds |-> 0]
    /\ finalData = [t \in TrackIds |-> NoRecord]

ClassifyNext ==
    \E t \in TrackIds, d \in JudgeRecord :
        OnMessage(1, [channel |-> "judge.result", json |-> "ok", type |-> "judge",
                      trackId |-> t, data |-> d])

ClassifySpec == ClassifyInit /\ [][ClassifyNext]_vars

\* ------------------------------------------------ the push channel is silent
\* The runs in which no socket ever delivers a frame.
SilentNext ==
    \/ Submit
    \/ \E t \in TrackIds : SubmitReturns(t)
    \/ \E t \in TrackIds : SubmitThrows(t)
    \/ \E s \in 1 .. MaxConns : OnClose(s)
    \/ \E s \in 1 .. MaxConns : OnError(s)
    \/ Stop
    \/ PollTick
    \/ \E q \in pending, answer \in Answers : PollResponse(q, answer)
    \/ AdvanceTime

\* The query for trackId is answered with a terminal record.
AnsweredFinished(trackId) ==
    \E q \in pending, data \in ReportedRecord :
        /\ q.trackId = trackId
        /\ Finished(data)
        /\ PollResponse(q, [kind |-> "judge", data |-> data])

\* Time passes, a due timer fires, every query settles, and a request that is
\* queried again and again is in the end answered with its terminal record.
SilentSpec ==
    /\ Init
    /\ [][SilentNext]_vars
    /\ WF_vars(AdvanceTime)
    /\ WF_vars(PollTick)
    /\ WF_vars(\E q \in pending, answer \in Answers : PollResponse(q, answer))
    /\ \A t \in TrackIds : SF_vars(AnsweredFinished(t))

\* ------------------------------------------------------------------ claims
\* The classification of the data model: terminal when the compile stage is
\* present and failed, or the execution stage is present with a terminal code.
TerminalStatus ==
    { CompileError, OutputLimitExceeded, MemoryLimitExceeded, TimeLimitExceeded,
      WrongAnswer, RuntimeError, Invalid, Accepted, OverallUnaccepted }

Terminal(data) == data.compile = "failed" \/ data.judge \in TerminalStatus

Tracked == DOMAIN runningJudge

\* A step in which a handler calls processJudgeResult: a push frame on the
\* result channel, or the answer to a status query.  CallId and CallData are
\* the arguments of the call.
Delivers == Len(processed') = 1
CallId   == processed'[1][1]
CallData == processed'[1][2]

\* Every entry other than trackId is what it was.
OthersKept(trackId) ==
    /\ Tracked \ {trackId} = DOMAIN runningJudge' \ {trackId}
    /\ \A u \in Tracked \ {trackId} : runningJudge'[u] = runningJudge[u]

\* C1: a terminal result for a tracked id removes that id's entry, invokes
\* the callback exactly once with (id, result), and changes no other entry.
C1_TerminalRemoves ==
    [][ (Delivers /\ CallId \in Tracked /\ Terminal(CallData)) =>
            /\ CallId \notin DOMAIN runningJudge'
            /\ callbacks' = << << CallId, CallData >> >>
            /\ OthersKept(CallId) ]_vars

\* A terminal result has just removed an entry while another entry stays.
C1_Witness ==
    \E t \in TrackIds, u \in TrackIds :
        /\ Len(processed) = 1 /\ processed[1][1] = t /\ Terminal(processed[1][2])
        /\ callbacks = processed
        /\ removals[t] = 1
        /\ t \notin Tracked
        /\ u \in Tracked

\* The terminal result of the call is the one its id was removed with.
Duplicate ==
    /\ Delivers
    /\ CallId \in TrackIds
    /\ Terminal(CallData)
    /\ removals[CallId] = 1
    /\ finalData[CallId] = CallData

\* C2, as claimed: the second delivery of the terminal result that removed an
\* id leaves one removal, brings the callback invocations with that result to
\* two, and raises nothing.
C2_DuplicateCallsBackTwice ==
    [][ (Duplicate /\ cbFinal[CallId] = 1) =>
            /\ removals'[CallId] = 1
            /\ cbFinal'[CallId] = 2
            /\ raised' = "none" ]_vars

\* C2, amended: the second delivery is discarded: one removal, one callback
\* invocation with the terminal result in total, nothing raised, nothing
\* changed in the registry.
C2_DuplicateDiscarded ==
    [][ Duplicate =>
            /\ removals'[CallId] = 1
            /\ cbFinal'[CallId] = 1
            /\ cbCount'[CallId] = cbCount[CallId]
            /\ callbacks' = << >>
            /\ raised' = "none"
            /\ runningJudge' = runningJudge ]_vars

\* The answer to a status query has just delivered, a second time, the
\* terminal result an id was removed with.
C2_Witness ==
    \E t \in TrackIds :
        /\ lastOp = "polled"
        /\ processed = << << t, finalData[t] >> >>
        /\ Terminal(finalData[t])
        /\ removals[t] = 1
        /\ callbacks = << >>

\* C3: a result for an id without an entry raises nothing, invokes no
\* callback and leaves the registry as it was.
C3_UnknownDiscarded ==
    [][ (Delivers /\ CallId \notin Tracked) =>
            /\ raised' = "none"
            /\ callbacks' = << >>
            /\ cbCount' = cbCount
            /\ runningJudge' = runningJudge ]_vars

\* Results have been discarded for an id that was never registered, and for
\* one that was already removed, while an entry is tracked.
C3_Witness ==
    /\ Tracked # {}
    /\ Len(processed) = 1
    /\ callbacks = << >>
    /\ \/ processed[1][1] = ForeignTrackId
       \/ /\ processed[1][1] \in TrackIds
          /\ removals[processed[1][1]] = 1

\* C4: a non-terminal result for a tracked id keeps the entry with its
\* remote handle, sets lastUpdateTime to the time of the call and invokes the
\* callback exactly once.
C4_ProgressRefreshes ==
    [][ (Delivers /\ CallId \in Tracked /\ ~Terminal(CallData)) =>
            /\ CallId \in DOMAIN runningJudge'
            /\ runningJudge'[CallId].requestId = runningJudge[CallId].requestId
            /\ runningJudge'[CallId].lastUpdateTime = DateNow
            /\ callbacks' = << << CallId, CallData >> >>
            /\ OthersKept(CallId) ]_vars

\* A non-terminal result has just refreshed an entry that had gone stale.
C4_Witness ==
    \E t \in Tracked :
        /\ Len(callbacks) = 1 /\ callbacks[1][1] = t /\ ~Terminal(callbacks[1][2])
        /\ runningJudge[t].lastUpdateTime = DateNow
        /\ lastOp = "polled"

\* C5: with a silent push channel, a poll tick queries every entry whose
\* lastUpdateTime is POLL_RESULT_MIN_HANG_TIME or more in the past, a terminal
\* answer removes the entry and reaches the callback, and every tracked entry
\* of a running, non-stopped client is eventually removed.
C5_PollFallback ==
    /\ [][ lastOp' = "poll" =>
             \A t \in Tracked :
                 (DateNow - runningJudge[t].lastUpdateTime >= POLL_RESULT_MIN_HANG_TIME)
                     => runningJudge[t].requestId \in queries' ]_vars
    /\ [][ (lastOp' = "polled" /\ Delivers /\ CallId \in Tracked /\ Terminal(CallData)) =>
             /\ CallId \notin DOMAIN runningJudge'
             /\ callbacks' = processed' ]_vars
    /\ \A t \in TrackIds :
         (t \in Tracked) ~> (t \notin Tracked \/ stopped \/ ~alive)

\* A poll answer has removed an entry whose callback had never been invoked.
C5_Witness ==
    \E t \in TrackIds :
        /\ lastOp = "polled"
        /\ Len(callbacks) = 1 /\ callbacks[1][1] = t /\ Terminal(callbacks[1][2])
        /\ cbCount[t] = 1
        /\ t \notin Tracked
        /\ ~stopped

\* C6: an error event of a socket is recovered: nothing escapes the handler,
\* the process goes on, and with a non-empty registry and a non-stopped
\* client a new connection is opened in the same step.
C6_ErrorRecovered ==
    [][ lastOp' = "onerror" =>
            /\ raised' = "none"
            /\ alive'
            /\ (Tracked # {} /\ ~stopped) =>
                   (ws' # NoSocket /\ nextSocket' = nextSocket + 1) ]_vars

\* C7: when a socket closes while the registry is non-empty and the client is
\* not stopped, a new socket is opened in the same step and becomes this.ws,
\* and the registry is what it was.
C7_CloseReconnects ==
    [][ (lastOp' = "onclose" /\ Tracked # {} /\ ~stopped) =>
            /\ nextSocket' = nextSocket + 1
            /\ ws' = nextSocket'
            /\ ws' \in sockets'
            /\ raised' = "none"
            /\ runningJudge' = runningJudge ]_vars

\* The current socket has closed with an entry tracked, and a later socket
\* has taken its place.
C7_Witness ==
    /\ lastOp = "onclose"
    /\ Tracked # {}
    /\ ~stopped
    /\ nextSocket >= 2
    /\ ws = nextSocket
    /\ sockets = {ws}

\* C8: stop() raises nothing, and once the client is stopped no poll tick
\* starts and no status query is sent.
C8_StopCancelsPolling ==
    [][ /\ lastOp' = "stop" => raised' = "none"
        /\ stopped => (lastOp' # "poll" /\ queries' = {}) ]_vars

\* C9: once the client is stopped no socket is created, whatever follows.
C9_NoConnectAfterStop ==
    [][ stopped => (nextSocket' = nextSocket /\ sockets' \subseteq sockets) ]_vars

\* After stop(), a socket has closed, or a submit has returned, with an entry
\* tracked and this.ws empty.
C9_Witness ==
    /\ stopped
    /\ lastOp \in {"onclose", "submitted"}
    /\ Tracked # {}
    /\ ws = NoSocket

\* C10: a failing submit call rejects to the caller, leaves the registry and
\* the sockets as they were; an entry appears only when a submit call returns,
\* with the handle returned for it and lastUpdateTime the time of insertion.
C10_SubmitFailureLeavesNothing ==
    [][ /\ lastOp' = "submitFailed" =>
              /\ raised' = "HttpError"
              /\ runningJudge' = runningJudge
              /\ nextSocket' = nextSocket
              /\ ws' = ws
        /\ \A t \in DOMAIN runningJudge' \ Tracked :
              /\ lastOp' = "submitted"
              /\ raised' = "none"
              /\ t \in submitting
              /\ runningJudge'[t] =
                     [requestId |-> RequestId(t), lastUpdateTime |-> DateNow]
              /\ OthersKept(t) ]_vars

\* A submit call has failed for one id while the other id is tracked, and the
\* failed id has no entry.
C10_Witness ==
    \E t \in TrackIds, u \in TrackIds :
        /\ lastOp = "submitFailed"
        /\ raised = "HttpError"
        /\ t <= nextTrack
        /\ t \notin Tracked
        /\ t \notin submitting
        /\ removals[t] = 0
        /\ u \in Tracked

\* C11: a poll tick sends no query for an entry whose lastUpdateTime is less
\* than POLL_RESULT_MIN_HANG_TIME in the past, and exactly one query, with the
\* entry's requestId, for every other entry; it sends nothing else.
C11_StaleQueriedOnce ==
    [][ lastOp' = "poll" =>
          /\ \A t \in Tracked :
               LET mine == { q \in pending' : q.trackId = t }
               IN IF DateNow - runningJudge[t].lastUpdateTime >= POLL_RESULT_MIN_HANG_TIME
                  THEN /\ Cardinality(mine) = 1
                       /\ \A q \in mine : q.requestId = runningJudge[t].requestId
                       /\ runningJudge[t].requestId \in queries'
                  ELSE /\ mine = {}
                       /\ runningJudge[t].requestId \notin queries'
          /\ \A q \in pending' : q.trackId \in Tracked
          /\ Cardinality(queries') = Cardinality(pending') ]_vars

\* A tick has queried the stale entry and skipped the fresh one.
C11_Witness ==
    \E t \in Tracked, u \in Tracked :
        /\ lastOp = "poll"
        /\ runningJudge[t].lastUpdateTime = 0
        /\ runningJudge[u].lastUpdateTime > 0
        /\ queries = { runningJudge[t].requestId }
        /\ pending = { [trackId |-> t, requestId |-> runningJudge[t].requestId] }

\* C12: every result that arrives for an id while it has an entry invokes the
\* callback once, so k non-terminal results followed by a terminal one make
\* k + 1 invocations and leave no entry; a pushed non-terminal frame keeps
\* the entry and refreshes lastUpdateTime, a pushed terminal frame removes it.
C12_PushPath ==
    /\ [](\A t \in TrackIds :
            /\ cbCount[t] = delivered[t]
            /\ t \in Tracked => cbFinal[t] = 0
            /\ removals[t] = 1 =>
                 /\ t \notin Tracked
                 /\ Terminal(finalData[t])
                 /\ cbFinal[t] = 1
                 /\ cbCount[t] = (delivered[t] - 1) + 1)
    /\ [][ (lastOp' = "onmessage" /\ Delivers /\ CallId \in Tracked) =>
             IF Terminal(CallData)
             THEN CallId \notin DOMAIN runningJudge'
             ELSE /\ CallId \in DOMAIN runningJudge'
                  /\ runningJudge'[CallId].lastUpdateTime = DateNow ]_vars

\* After one non-terminal result, a pushed Accepted frame has removed the
\* entry: two callback invocations in all.
C12_Witness ==
    \E t \in TrackIds :
        /\ lastOp = "onmessage"
        /\ callbacks = << << t, [compile |-> "success", judge |-> Accepted] >> >>
        /\ delivered[t] = 2
        /\ cbCount[t] = 2
        /\ cbFinal[t] = 1
        /\ t \notin Tracked

\* C13: for every combination of compile stage and judge stage, the test the
\* result processor applies agrees with the specified classification: the
\* record is treated as finished, and the entry it is delivered for is
\* removed, exactly when the compile stage is present and failed or the judge
\* stage is present with a terminal status.
C13_TerminalTestAgrees ==
    [][ (Delivers /\ CallId \in Tracked) =>
          /\ Finished(CallData) <=> Terminal(CallData)
          /\ (CallId \notin DOMAIN runningJudge') <=> Terminal(CallData)
          /\ (CallId \in DOMAIN runningJudge') <=> ~Terminal(CallData) ]_vars

\* A failed compilation reported together with a Waiting judge stage has
\* removed the entry.
C13_Witness ==
    \E t \in TrackIds :
        /\ lastOp = "onmessage"
        /\ callbacks = << << t, [compile |-> "failed", judge |-> Waiting] >> >>
        /\ t \notin Tracked
        /\ removals[t] = 1

\* C14: an id enters the registry only in the step in which its submit
\* returns, and leaves it only in a step in which the result processor is
\* called with a terminal result for that id; no id is removed more than
\* once, and a removed id is not in the registry.
C14_RegistryLifecycle ==
    /\ [][ \A t \in TrackIds :
             /\ (t \notin Tracked /\ t \in DOMAIN runningJudge') =>
                    /\ lastOp' = "submitted"
                    /\ removals[t] = 0
             /\ (t \in Tracked /\ t \notin DOMAIN runningJudge') =>
                    /\ Delivers
                    /\ CallId = t
                    /\ Terminal(CallData)
                    /\ callbacks' = processed'
                    /\ removals'[t] = removals[t] + 1
             /\ (t \in Tracked /\ t \in DOMAIN runningJudge') =>
                    /\ removals'[t] = removals[t]
                    /\ runningJudge'[t].requestId = runningJudge[t].requestId ]_vars
    /\ [](\A t \in TrackIds :
            /\ removals[t] <= 1
            /\ removals[t] = 1 => t \notin Tracked)

\* After stop, one id has been removed by its terminal result and the other,
\* for which no result has arrived, is still in the registry.
C14_Witness ==
    \E t \in TrackIds, u \in TrackIds :
        /\ stopped
        /\ t \in Tracked
        /\ delivered[t] = 0
        /\ u \notin Tracked
        /\ removals[u] = 1
        /\ Terminal(finalData[u])

\* C15: never more than one socket is open or connecting.
C15_OneLiveConnection == Cardinality(sockets) <= 1

\* The close event of a socket other than the one the handle names leaves the
\* handle alone.
OlderCloseKeepsHandle ==
    [][ (lastOp' = "onclose" /\ ws # NoSocket /\ ws \in sockets') =>
          ws' = ws ]_vars

\* The close event of socket 1 has cleared the handle of socket 2 and opened
\* socket 3: sockets 2 and 3 are both live.
OrphanedSocket ==
    /\ lastOp = "onclose"
    /\ sockets = {2, 3}
    /\ ws = 3

\* C16: a status query that fails raises nothing, changes no entry and
\* invokes no callback; the other queries of the tick stay in flight and
\* their answers can still be processed; when it was the last query to settle
\* and the client is not stopped, the timer is re-armed for the next interval.
C16_QueryFailureContained ==
    /\ [][ lastOp' = "pollFailed" =>
             /\ raised' = "none"
             /\ alive' = alive
             /\ runningJudge' = runningJudge
             /\ processed' = << >>
             /\ callbacks' = << >>
             /\ cbCount' = cbCount
             /\ pending' \subseteq pending
             /\ Cardinality(pending') = Cardinality(pending) - 1
             /\ IF pending' # {}
                THEN pollResultTimer' = pollResultTimer
                ELSE ~stopped =>
                       /\ pollResultTimer'.scheduled
                       /\ pollResultTimer'.left = POLL_RESULT_INTERVAL ]_vars
    /\ [](lastOp = "pollFailed" =>
            \A q \in pending :
                ENABLED PollResponse(q, [kind |-> "judge",
                                         data |-> [compile |-> "success",
                                                   judge |-> Accepted]]))

\* One query of a tick of two has failed: both entries are as they were and
\* the other query is still in flight.
C16_Witness ==
    /\ lastOp = "pollFailed"
    /\ Cardinality(Tracked) = 2
    /\ Cardinality(pending) = 1
    /\ \A t \in Tracked : cbCount[t] = 0 /\ runningJudge[t].lastUpdateTime = 0
    /\ ~pollResultTimer.scheduled
    /\ ~stopped

\* C17: the poll timer is never pending while queries of a tick are in
\* flight; while the client is not stopped exactly one of the two holds; the
\* timer is armed only by a step of the tick that leaves no query in flight.
C17_TicksNeverOverlap ==
    /\ [](/\ ~(pollResultTimer.scheduled /\ pending # {})
          /\ ~stopped => (pollResultTimer.scheduled <=> pending = {}))
    /\ [][ (pollResultTimer'.scheduled /\ pollResultTimer' # pollResultTimer
                /\ lastOp' # "clock") =>
             /\ lastOp' \in {"poll", "polled", "pollFailed"}
             /\ pending' = {}
             /\ pollResultTimer' = SetTimeout ]_vars

\* Both queries of a tick have returned and the timer is armed again.
C17_Witness ==
    /\ lastOp = "polled"
    /\ ~stopped
    /\ pending = {}
    /\ pollResultTimer = SetTimeout
    /\ Cardinality(Tracked) = 2
    /\ \A t \in Tracked : delivered[t] = 1

\* C18: ensureWebSocket is called at the end of submit, with the handle as it
\* is and the registry holding the new entry, and by ws.onclose, with the
\* handle just cleared.  When it is entered with a handle, or with an empty
\* registry, or after stop, it leaves the handle as it was entered with and
\* creates no socket; otherwise it creates exactly one socket and stores it in
\* the handle.  It changes no entry of the registry.
C18_EnsureWebSocket ==
    [][ lastOp' \in {"onclose", "submitted"} =>
          LET handle == IF lastOp' = "onclose" THEN NoSocket ELSE ws
          IN /\ IF handle # NoSocket \/ DOMAIN runningJudge' = {} \/ stopped
                THEN /\ ws' = handle
                     /\ nextSocket' = nextSocket
                     /\ sockets' \subseteq sockets
                ELSE /\ nextSocket' = nextSocket + 1
                     /\ ws' = nextSocket'
                     /\ ws' \notin sockets
                     /\ sockets' \ sockets = {ws'}
             /\ \A t \in Tracked :
                    t \in DOMAIN runningJudge' /\ runningJudge'[t] = runningJudge[t]
             /\ lastOp' = "onclose" => runningJudge' = runningJudge
             /\ stopped' = stopped ]_vars

\* The second submit has returned while the socket of the first is open: no
\* second socket.
C18_Witness ==
    /\ lastOp = "submitted"
    /\ Cardinality(Tracked) = 2
    /\ nextSocket = 1
    /\ ws = 1
    /\ sockets = {1}
    /\ ~stopped

\* C19: a status query answered 204 (call returns null) raises nothing, calls
\* neither the result processor nor the callback and leaves every entry,
\* lastUpdateTime included, as it was: the entries the next tick would query
\* are still the ones it will query.
C19_AbsentAnswerIsNoProgress ==
    [][ (lastOp' = "polled" /\ processed' = << >>) =>
          /\ raised' = "none"
          /\ alive' = alive
          /\ callbacks' = << >>
          /\ cbCount' = cbCount
          /\ delivered' = delivered
          /\ runningJudge' = runningJudge
          /\ Hanging(runningJudge) \subseteq Hanging(runningJudge')
          /\ Cardinality(pending') = Cardinality(pending) - 1 ]_vars

\* The only submission's query has been answered 204: the entry is there,
\* still stale, no callback was ever invoked, and the next tick is armed.
C19_Witness ==
    /\ lastOp = "polled"
    /\ processed = << >>
    /\ nextTrack = 1
    /\ Tracked = {1}
    /\ Hanging(runningJudge) = {1}
    /\ cbCount[1] = 0
    /\ pending = {}
    /\ pollResultTimer = SetTimeout

\* C20: once the callback has been invoked with a terminal result for an id,
\* the id is never in the registry again and the callback is never invoked
\* for it again, whatever arrives for it later; no id's callback is invoked
\* with a terminal result twice.
C20_TerminalIsFinal ==
    /\ [](\A t \in TrackIds :
            /\ cbFinal[t] <= 1
            /\ cbFinal[t] = 1 => t \notin Tracked)
    /\ [][ \A t \in TrackIds :
             cbFinal[t] = 1 =>
                /\ t \notin DOMAIN runningJudge'
                /\ cbCount'[t] = cbCount[t]
                /\ cbFinal'[t] = 1
                /\ (Delivers /\ CallId = t) => callbacks' = << >> ]_vars

\* The answer to a status query has delivered a non-terminal result for an id
\* whose terminal result was reported before: no callback.
C20_Witness ==
    \E t \in TrackIds :
        /\ lastOp = "polled"
        /\ cbFinal[t] = 1
        /\ processed = << << t, [compile |-> "success", judge |-> Judging] >> >>
        /\ callbacks = << >>
        /\ t \notin Tracked

====
